---- MODULE Spec2Model ----
(***************************************************************************)
(* Model of JVD/gensamples.py: three `with open(path, 'w') as f:` blocks,  *)
(* each drawing size=100 variates with scipy.stats (norm, uniform, expon)  *)
(* and writing one formatted value per line.                               *)
(*                                                                         *)
(* Floating-point values are modelled as binary floats with a Prec-bit     *)
(* significand and round-to-nearest-even, held as integers counting units  *)
(* of 2^-Prec.  The process-wide random source is a full-period additive    *)
(* stream over the 2^Prec values of a random double in [0,1).              *)
(***************************************************************************)
EXTENDS Integers, Sequences, FiniteSets, TLC

\* ---------------------------------------------------------------- bounds
Prec == 8          \* significand bits of the modelled float (53 in the build)
MaxPrior == 2      \* lines held by an output file that exists before a run
MaxRuns == 2       \* invocations of the script in one behaviour
NumSeeds == 16     \* initial states of the random source that are explored

\* ------------------------------------------------------ program constants
size == 100        \* size=100 in each rvs call

Pow2(e) == 2 ^ e

Unit == Pow2(Prec)                 \* the integer that stands for 1.0

Dists == 1..3                      \* the three with-blocks, in source order

\* Mutant of Path: the third block writes to another file of the directory.
PathMisc(d) == CASE d = 1 -> "data/normal.txt"
                 [] d = 2 -> "data/uniform.txt"
                 [] OTHER -> "data/misc.txt"

Path(d) == CASE d = 1 -> "data/normal.txt"
             [] d = 2 -> "data/uniform.txt"
             [] OTHER -> "data/exponential.txt"

Loc(d) == CASE d = 1 -> 100 * Unit [] d = 2 -> 75 * Unit [] OTHER -> 0

\* Mutant of Scale: the uniform block is given scale 60.
ScaleWide(d) == CASE d = 1 -> 10 * Unit [] d = 2 -> 60 * Unit [] OTHER -> 100 * Unit

Scale(d) == CASE d = 1 -> 10 * Unit [] d = 2 -> 50 * Unit [] OTHER -> 100 * Unit

\* Every path of the modelled directory: the three outputs and a bystander.
OutputPaths == {"data/normal.txt", "data/uniform.txt", "data/exponential.txt"}
Paths == OutputPaths \cup {"data/misc.txt"}

None == "none"

\* ----------------------------------------------------- float arithmetic
\* Number of bits of a non-negative integer below 2^30.
BitLen(m) ==
    IF m = 0 THEN 0
    ELSE CHOOSE b \in 1..30 : Pow2(b - 1) <= m /\ m < Pow2(b)

\* Round a non-negative integer to Prec significant bits, ties to even.
RoundMag(m) ==
    IF BitLen(m) <= Prec THEN m
    ELSE LET sh == BitLen(m) - Prec
             q == m \div Pow2(sh)
             r == m % Pow2(sh)
             half == Pow2(sh - 1)
         IN IF r > half \/ (r = half /\ q % 2 = 1)
            THEN (q + 1) * Pow2(sh)
            ELSE q * Pow2(sh)

RoundFloat(x) == IF x < 0 THEN 0 - RoundMag(0 - x) ELSE RoundMag(x)

\* a * b and a + b as the float operations compute them.  The double-width
\* product is rounded before it is rescaled; the operands used here make the
\* rescaling exact.
FMul(a, b) == RoundFloat(a * b) \div Unit
FAdd(a, b) == RoundFloat(a + b)

\* ------------------------------------------------------ random variates
\* The random source: state k stands for the random double k / 2^Prec, and
\* each draw moves the state by an odd step, visiting every double in turn.
Step == 157

\* The source after cnt draws.
Advance(k, cnt) == (k + Step * cnt) % Unit

\* Standard variates computed from one random double.
StdUniform(k) == k

\* Bounded stand-in for a standard normal deviate: symmetric about 0,
\* in [-4, 4).
StdNorm(k) == (k - Unit \div 2) * 8

\* -log(1 - u): log2 by exponent plus linear significand, times ln 2.
Ln2 == (693147 * Unit) \div 1000000
Log2Lin(m) == LET e == BitLen(m) - 1
              IN e * Unit + ((m - Pow2(e)) * Unit) \div Pow2(e)
StdExpon(k) == RoundFloat(((Prec * Unit - Log2Lin(Unit - k)) * Ln2) \div Unit)

Std(d, k) == CASE d = 1 -> StdNorm(k) [] d = 2 -> StdUniform(k) [] OTHER -> StdExpon(k)

\* rv_continuous.rvs: vals = _rvs(size); vals = vals * scale + loc
Variate(d, k) == FAdd(FMul(Std(d, k), Scale(d)), Loc(d))

\* Variates[d][k]: the variate of distribution d for each random double.
Variates == [d \in Dists |-> [k \in 0..(Unit - 1) |-> Variate(d, k)]]

\* Mutant of Rvs: one variate too few.
RvsShort(d, k, cnt) == [j \in 1..(cnt - 1) |-> Variates[d][Advance(k, j - 1)]]

\* The array of cnt variates drawn from the source in state k.
Rvs(d, k, cnt) == [j \in 1..cnt |-> Variates[d][Advance(k, j - 1)]]

\* ------------------------------------------------------------ formatting
Abs(x) == IF x < 0 THEN 0 - x ELSE x

\* Mutant of Format: the value is printed without its fraction.
FormatWhole(x) == <<IF x < 0 THEN 1 ELSE 0, Abs(x) \div Unit, 0>>

\* '{}\n'.format(n): the decimal text of n terminated by a newline.  A line
\* is the sign, the whole part and the fraction of the value it prints.
Format(x) == <<IF x < 0 THEN 1 ELSE 0, Abs(x) \div Unit, Abs(x) % Unit>>

\* float(line): the value a line of an output file reads back as.
Parse(l) == (IF l[1] = 1 THEN 0 - 1 ELSE 1) * (l[2] * Unit + l[3])

\* ------------------------------------------------------------------ state
VARIABLES
    pc,        \* position in the script: "open", "gen", "write", "done", "error"
    dist,      \* which with-block is executing (1 normal, 2 uniform, 3 exponential)
    f,         \* path of the file object the name f is bound to, or None
    handles,   \* paths of the file objects that are open
    i,         \* number of elements of the array the for loop has consumed
    samples,   \* samples[d]: the array rvs returned for block d in this run
    rng,       \* state of the process-wide random source
    disk,      \* disk[p]: whether p exists and the lines it holds
    opened,    \* paths passed to open() in this run, in call order
    prior,     \* disk as it was when this run started
    raised,    \* the call whose exception ended this run, or None
    status,    \* exit status of the process, Running until it exits
    run        \* ordinal of the current invocation

vars == <<pc, dist, f, handles, i, samples, rng, disk, opened, prior, raised,
          status, run>>

Running == 0 - 1

Missing == [exists |-> FALSE, lines |-> <<>>]
Stale == [exists |-> TRUE, lines |-> [j \in 1..MaxPrior |-> Format(j * Unit)]]
PriorContents == {Missing, Stale}

NoSamples == [d \in Dists |-> <<>>]

\* The random source is unseeded: a run may start from any state of it.
Seeds == {(s * Unit) \div NumSeeds : s \in 0..(NumSeeds - 1)}

Init ==
    /\ pc = "open"
    /\ dist = 1
    /\ f = None
    /\ handles = {}
    /\ i = 0
    /\ samples = NoSamples
    /\ rng \in Seeds
    /\ disk \in {dk \in [Paths -> PriorContents] : dk["data/misc.txt"] = Stale}
    /\ opened = <<>>
    /\ prior = disk
    /\ raised = None
    /\ status = Running
    /\ run = 1

\* Mutant of Truncated: mode 'a', the file keeps the lines it holds.
TruncatedKeep(dk, p) == [dk EXCEPT ![p].exists = TRUE]

\* Mutant of Truncated: every output file is emptied.
TruncatedAll(dk, p) ==
    [q \in DOMAIN dk |->
        IF q \in OutputPaths THEN [exists |-> TRUE, lines |-> <<>>] ELSE dk[q]]

\* Mode 'w': the file is created if missing and truncated to no lines.
Truncated(dk, p) == [dk EXCEPT ![p] = [exists |-> TRUE, lines |-> <<>>]]

\* open(path, 'w') succeeds and the file object is bound to f.
Open ==
    /\ pc = "open"
    /\ opened' = Append(opened, Path(dist))
    /\ disk' = Truncated(disk, Path(dist))
    /\ f' = Path(dist)
    /\ handles' = handles \cup {Path(dist)}
    /\ pc' = "gen"
    /\ UNCHANGED <<dist, i, samples, rng, prior, raised, status, run>>

\* Mutant of OpenFail: the exception is caught and the script goes on with
\* the body of the with-block's successor.
OpenFailSkip ==
    /\ pc = "open"
    /\ dist < 3
    /\ opened' = Append(opened, Path(dist))
    /\ raised' = "open"
    /\ dist' = dist + 1
    /\ UNCHANGED <<pc, f, handles, i, samples, rng, disk, prior, status, run>>

\* open(path, 'w') raises OSError: nothing is created or truncated, the
\* exception is uncaught and the interpreter exits with status 1.
OpenFail ==
    /\ pc = "open"
    /\ opened' = Append(opened, Path(dist))
    /\ raised' = "open"
    /\ pc' = "error"
    /\ status' = 1
    /\ UNCHANGED <<dist, f, handles, i, samples, rng, disk, prior, run>>

\* st.<dist>.rvs(loc, scale, size=100) returns the whole array before the
\* for loop takes its first element.
Generate ==
    /\ pc = "gen"
    /\ samples' = [samples EXCEPT ![dist] = Rvs(dist, rng, size)]
    /\ rng' = Advance(rng, size)
    /\ i' = 0
    /\ pc' = "write"
    /\ UNCHANGED <<dist, f, handles, disk, opened, prior, raised, status, run>>

\* Mutant of Released: the file object is left open.
ReleasedLeak(hs, p) == hs

\* __exit__ of the with-block closes the file object it was entered with.
Released(hs, p) == hs \ {p}

\* rvs raises inside the with-block: __exit__ closes f, the exception is
\* uncaught and the interpreter exits with status 1.
GenerateRaise ==
    /\ pc = "gen"
    /\ handles' = Released(handles, f)
    /\ raised' = "rvs"
    /\ pc' = "error"
    /\ status' = 1
    /\ UNCHANGED <<dist, f, i, samples, rng, disk, opened, prior, run>>

\* f.write(text) puts one more line at the end of the file.
Appended(dk, p, l) == [dk EXCEPT ![p].lines = Append(@, l)]

\* One iteration of the for loop: f.write('{}\n'.format(n)).
Write ==
    /\ pc = "write"
    /\ i < Len(samples[dist])
    /\ disk' = Appended(disk, f, Format(samples[dist][i + 1]))
    /\ i' = i + 1
    /\ UNCHANGED <<pc, dist, f, handles, samples, rng, opened, prior, raised,
                   status, run>>

\* Mutant of WriteFail: the exception is caught and the process exits with
\* status 0.
WriteFailExit0 ==
    /\ pc = "write"
    /\ i < Len(samples[dist])
    /\ handles' = Released(handles, f)
    /\ raised' = "write"
    /\ pc' = "error"
    /\ status' = 0
    /\ UNCHANGED <<dist, f, i, samples, rng, disk, opened, prior, run>>

\* f.write raises OSError: the line is not written, __exit__ closes f, the
\* exception is uncaught and the interpreter exits with status 1.
WriteFail ==
    /\ pc = "write"
    /\ i < Len(samples[dist])
    /\ handles' = Released(handles, f)
    /\ raised' = "write"
    /\ pc' = "error"
    /\ status' = 1
    /\ UNCHANGED <<dist, f, i, samples, rng, disk, opened, prior, run>>

\* Mutant of Close: the for loop is left after any number of iterations.
CloseEarly ==
    /\ pc = "write"
    /\ handles' = Released(handles, f)
    /\ IF dist < 3
       THEN /\ dist' = dist + 1
            /\ pc' = "open"
            /\ status' = status
       ELSE /\ dist' = dist
            /\ pc' = "done"
            /\ status' = 0
    /\ UNCHANGED <<f, i, samples, rng, disk, opened, prior, raised, run>>

\* The for loop is exhausted: __exit__ closes f and control reaches the next
\* with-block, or the end of the script after the third.
Close ==
    /\ pc = "write"
    /\ i = Len(samples[dist])
    /\ handles' = Released(handles, f)
    /\ IF dist < 3
       THEN /\ dist' = dist + 1
            /\ pc' = "open"
            /\ status' = status
       ELSE /\ dist' = dist
            /\ pc' = "done"
            /\ status' = 0
    /\ UNCHANGED <<f, i, samples, rng, disk, opened, prior, raised, run>>

\* The script is invoked again after a successful run; the new process
\* starts with nothing bound and draws on from the random source.
Rerun ==
    /\ pc = "done"
    /\ run < MaxRuns
    /\ run' = run + 1
    /\ pc' = "open"
    /\ dist' = 1
    /\ f' = None
    /\ i' = 0
    /\ samples' = NoSamples
    /\ opened' = <<>>
    /\ prior' = disk
    /\ status' = Running
    /\ UNCHANGED <<handles, rng, disk, raised>>

\* The steps of one execution of the script.
Run ==
    \/ Open
    \/ OpenFail
    \/ Generate
    \/ GenerateRaise
    \/ Write
    \/ WriteFail
    \/ Close

Next ==
    \/ Run
    \/ Rerun

Spec == Init /\ [][Next]_vars

\* The interpreter executes the script without pause until it exits.
FairSpec == Init /\ [][Next]_vars /\ WF_vars(Run)

\* ---------------------------------------------------------------- claims
Exited == pc \in {"done", "error"}

\* Block d's open() has succeeded in this run.
HasOpened(d) ==
    \/ d < dist
    \/ d = dist /\ pc \in {"gen", "write", "done"}
    \/ d = dist /\ pc = "error" /\ raised # "open"

\* Block d's rvs call has returned in this run.
HasGenerated(d) ==
    \/ d < dist
    \/ d = dist /\ pc \in {"write", "done"}
    \/ d = dist /\ pc = "error" /\ raised = "write"

\* Number of f.write calls block d has completed in this run.
Written(d) ==
    IF d < dist \/ pc = "done" THEN size
    ELSE IF d = dist /\ HasGenerated(d) THEN i
    ELSE 0

Lines(d) == disk[Path(d)].lines

\* The file of block d holds exactly the first cnt samples of block d, in
\* generation order, one per line.
HoldsSamples(d, cnt) ==
    /\ disk[Path(d)].exists
    /\ Len(Lines(d)) = cnt
    /\ cnt <= Len(samples[d])
    /\ \A j \in 1..cnt : Parse(Lines(d)[j]) = samples[d][j]

Range(sq) == {sq[j] : j \in 1..Len(sq)}

\* C1: after a run that finishes without an error, each of the three output
\* files exists and holds exactly 100 lines, and for every distribution
\* exactly 100 samples were generated.
C1_HundredLines ==
    pc = "done" =>
        \A d \in Dists :
            /\ Len(samples[d]) = 100
            /\ disk[Path(d)].exists
            /\ Len(Lines(d)) = 100

C1_Witness ==
    /\ pc = "done"
    /\ run = 1
    /\ \A d \in Dists : Len(Lines(d)) = 100 /\ Len(samples[d]) = 100

\* C2: a run overwrites and never appends: whatever a file held before the
\* run, once the run has opened it the file holds only the lines this run
\* has written to it, so it never exceeds 100 lines and holds exactly 100
\* after every successful run, the second as well as the first.
C2_Overwrites ==
    \A d \in Dists :
        HasOpened(d) =>
            /\ Len(Lines(d)) = Written(d)
            /\ Len(Lines(d)) <= 100
            /\ (pc = "done" => Len(Lines(d)) = 100)

C2_Witness ==
    /\ pc = "done"
    /\ run = 2
    /\ \A d \in Dists : Len(prior[Path(d)].lines) = 100 /\ Len(Lines(d)) = 100
    /\ \E d \in Dists : Lines(d) # prior[Path(d)].lines

\* C3: only data/normal.txt, data/uniform.txt and data/exponential.txt are
\* ever passed to open, held open, created or written; every other path
\* keeps the content it had; a successful run has opened exactly these
\* three, once each, and all three exist.
C3_OnlyThreeFiles ==
    /\ Range(opened) \subseteq OutputPaths
    /\ handles \subseteq OutputPaths
    /\ \A p \in Paths \ OutputPaths : disk[p] = prior[p]
    /\ pc = "done" =>
        /\ Len(opened) = 3
        /\ Range(opened) = OutputPaths
        /\ \A p \in OutputPaths : disk[p].exists

C3_Witness ==
    /\ pc = "done"
    /\ Range(opened) = OutputPaths
    /\ \E p \in OutputPaths : ~prior[p].exists /\ disk[p].exists

\* Block d has taken a step in this run: its open was called, its samples
\* were generated or its file differs from what it held before the run.
Started(d) ==
    \/ Path(d) \in Range(opened)
    \/ samples[d] # <<>>
    \/ disk[Path(d)] # prior[Path(d)]

\* The blocks run in the order normal, uniform, exponential: a block has
\* taken no step before the previous block's file holds all 100 lines.
InOrder ==
    \A d \in 2..3 : Started(d) => HoldsSamples(d - 1, 100)

\* C4 as stated: the blocks run in order, and for each distribution the
\* samples are generated before anything happens to its output file.
C4_GenerateBeforeAnyEffect ==
    /\ InOrder
    /\ \A d \in Dists :
           disk[Path(d)] # prior[Path(d)] => Len(samples[d]) = 100

\* C4 amended: the blocks run in order; for each distribution the file is
\* opened (created or truncated) first, then the samples are generated,
\* and only then is any line written to the file.
C4_OpenGenerateWrite ==
    /\ InOrder
    /\ \A d \in Dists :
           /\ samples[d] # <<>> =>
                  /\ HasOpened(d)
                  /\ Path(d) \in Range(opened)
                  /\ disk[Path(d)].exists
           /\ (HasOpened(d) /\ Lines(d) # <<>>) => Len(samples[d]) = 100

C4_Witness ==
    /\ dist = 3
    /\ pc = "write"
    /\ i > 0
    /\ HoldsSamples(1, 100)
    /\ HoldsSamples(2, 100)

\* C5: a failure is fail-fast: once a call has raised, the run is in its
\* error state with a non-zero status and takes no further step; open was
\* called once for the failing block and each block before it and never for
\* a later one, and the files of the later blocks are as they were before
\* the run, neither truncated nor written.
C5_FailFast ==
    /\ raised # None => pc = "error"
    /\ pc = "error" =>
        /\ raised # None
        /\ status = 1
        /\ ~ENABLED Next
        /\ opened = [j \in 1..dist |-> Path(j)]
        /\ \A d \in Dists :
               d > dist => /\ disk[Path(d)] = prior[Path(d)]
                           /\ samples[d] = <<>>

C5_Witness ==
    /\ pc = "error"
    /\ raised = "write"
    /\ dist = 1
    /\ i > 0
    /\ prior[Path(2)] = Stale
    /\ disk[Path(2)] = Stale

\* All three files were opened in this run and had all 100 lines written.
AllWritten ==
    \A d \in Dists : HasOpened(d) /\ Written(d) = 100 /\ HoldsSamples(d, 100)

\* C6: every run terminates, and its exit status is 0 exactly when all three
\* files were opened and had all 100 lines written; a run in which a call
\* raised exits with a non-zero status.
C6_ExitStatus ==
    /\ [](status = 0 <=> (Exited /\ AllWritten))
    /\ [](Exited <=> status # Running)
    /\ []((Exited /\ raised # None) => status = 1)
    /\ [](~Exited => <>Exited)

C6_Witness ==
    /\ status = 1
    /\ raised = "write"
    /\ dist = 3
    /\ i = 99
    /\ HoldsSamples(1, 100)
    /\ HoldsSamples(2, 100)

\* C7: at most one output file is open at any time, it is the file of the
\* block that is executing, no file is open when a block is about to open
\* its own, and none is open once the run has ended, by success or by an
\* exception raised while generating or writing.
C7_HandleReleased ==
    /\ Cardinality(handles) <= 1
    /\ handles \subseteq {Path(dist)}
    /\ pc \in {"gen", "write"} => handles = {f}
    /\ pc = "open" => handles = {}
    /\ Exited => handles = {}

C7_Witness ==
    /\ pc = "error"
    /\ raised \in {"rvs", "write"}
    /\ dist = 2
    /\ handles = {}
    /\ f = Path(2)

\* C8: each output file holds its own distribution's samples in generation
\* order, one value per line: while a file is being written it holds the
\* first values of the array its block generated, and after a successful
\* run line j reads back as the j-th value, for every j in 1..100.
C8_LinesAreSamples ==
    /\ \A d \in Dists : HasOpened(d) => HoldsSamples(d, Written(d))
    /\ pc = "done" =>
        \A d \in Dists : \A j \in 1..100 :
            Parse(disk[Path(d)].lines[j]) = samples[d][j]

C8_Witness ==
    /\ pc = "done"
    /\ \A d \in Dists : HoldsSamples(d, 100)
    /\ samples[1] # samples[2]
    /\ \E j \in 1..99 : samples[2][j] # samples[2][j + 1]

\* The values block d has written to its file in this run.
WrittenValues(d) ==
    IF HasOpened(d) THEN {Parse(Lines(d)[j]) : j \in 1..Len(Lines(d))} ELSE {}

\* C9 as stated: every value written to data/exponential.txt is
\* non-negative and every value written to data/uniform.txt lies in the
\* half-open range [75.0, 125.0).
C9_HalfOpenRange ==
    /\ \A v \in WrittenValues(3) : v >= 0
    /\ \A v \in WrittenValues(2) : 75 * Unit <= v /\ v < 125 * Unit

\* C9 amended: every value written to data/exponential.txt is non-negative
\* and every value written to data/uniform.txt lies in the closed range
\* [75.0, 125.0]: the sum loc + scale * u is rounded to the nearest float,
\* which is 125.0 for the largest u below 1.
C9_ClosedRange ==
    /\ \A v \in WrittenValues(3) : v >= 0
    /\ \A v \in WrittenValues(2) : 75 * Unit <= v /\ v <= 125 * Unit

C9_Witness ==
    /\ pc = "done"
    /\ 125 * Unit \in WrittenValues(2)
    /\ \E v \in WrittenValues(2) : v < 125 * Unit
    /\ WrittenValues(3) # {}

\* C10: a step changes no file but the one of the block that is executing;
\* so in every state, and in particular when the run has failed in block k,
\* each earlier block's file holds the complete 100 lines written in this
\* run and each later block's file holds exactly what it held before the
\* run; only block k's file may be truncated or short of 100 lines.
C10_Frame ==
    /\ [][\A p \in Paths : p # Path(dist) => disk'[p] = disk[p]]_vars
    /\ [](\A d \in Dists :
             /\ d < dist => HoldsSamples(d, 100)
             /\ d > dist => disk[Path(d)] = prior[Path(d)])

C10_Witness ==
    /\ pc = "error"
    /\ dist = 2
    /\ raised = "write"
    /\ Len(Lines(2)) \in 1..99
    /\ HoldsSamples(1, 100)
    /\ prior[Path(1)] = Stale
    /\ prior[Path(3)] = Stale
    /\ disk[Path(3)] = Stale

====
